---------------------------- MODULE Spec2Model ----------------------------
(***************************************************************************)
(* Minutron: time tracking on a Postgres store guarded by row level        *)
(* security, driven by the handlers of UserDashboard and AdminDashboard.   *)
(* The state is the content of the tables; an action is one handler run    *)
(* by an authenticated user, with the row level security policies and the  *)
(* table constraints deciding what the statement does.                     *)
(***************************************************************************)
EXTENDS Integers, Sequences, FiniteSets, TLC

VARIABLES
    now,                  \* the clock read by new Date(), in whole seconds
    user_roles,           \* table user_roles: set of [user_id, role]
    projects,             \* table projects: set of [id, created_by, is_active]
    project_assignments,  \* table project_assignments: set of [project_id, user_id, assigned_by]
    time_entries,         \* table time_entries: set of rows
    projectList,          \* AdminDashboard's projects state of each signed-in user
    last                  \* what the last handler run showed its caller

vars == <<now, user_roles, projects, project_assignments, time_entries,
          projectList, last>>

dbvars == <<user_roles, projects, project_assignments, time_entries>>

----------------------------------------------------------------------------
(* Bounds of the model *)

MaxTick == 4

MaxEntries == 2

MaxClockEntries == 1

(* Identities. auth.users rows exist for each; "adm" was granted the admin  *)
(* role, the others hold the role handle_new_user gives.                    *)
Users == {"u1", "u2", "adm"}

ProjectIds == {"p1", "p2"}

EntryIds == 1..MaxEntries

(* The i-th instant of the clock, in seconds: 0, 1, 30, 31, 90, 91, 180, ..*)
(* so that two instants are a second, half a minute, a minute and a half   *)
(* minute, or a little less or more than these, apart                      *)
Instant(i) == 15 * (i \div 2) * ((i \div 2) + 1) + (i % 2)

Times == {Instant(i) : i \in 0..MaxTick}

(* SQL NULL / an empty form field, and a present value *)
NULL == << >>

Some(v) == <<v>>

Val(x) == x[1]

Nullable(S) == {NULL} \cup {Some(v) : v \in S}

----------------------------------------------------------------------------
(* Schema *)

(* As has_role, had the grants been read once, at the sign-up *)
has_role_at_signup(uid, role) ==
    [user_id |-> uid, role |-> role] \in
        ([user_id : {"u1", "u2", "adm"}, role : {"user"}]
             \cup {[user_id |-> "adm", role |-> "admin"]})

(* has_role(_user_id, _role) *)
has_role(uid, role) == [user_id |-> uid, role |-> role] \in user_roles

(* As RoundHalfAwayFromZero, had the division been an integer division *)
RoundTowardZero(num, den) ==
    IF num >= 0 THEN num \div den ELSE -((-num) \div den)

(* As RoundHalfAwayFromZero, had every started minute counted *)
RoundAwayFromZero(num, den) ==
    IF num >= 0 THEN (num + den - 1) \div den ELSE -((-num + den - 1) \div den)

(* numeric -> integer assignment cast: round to nearest, ties away from zero *)
RoundHalfAwayFromZero(num, den) ==
    IF num >= 0 THEN (2 * num + den) \div (2 * den)
                ELSE -((2 * (-num) + den) \div (2 * den))

(* time_entries.duration_minutes, GENERATED ALWAYS AS (...) STORED *)
duration_minutes(start_time, end_time) ==
    IF end_time # NULL
    THEN Some(RoundHalfAwayFromZero(Val(end_time) - start_time, 60))
    ELSE NULL

(* A row of time_entries as stored from the columns a statement supplies *)
TimeEntryRow(id, uid, pid, desc, st, en, running) ==
    [id |-> id, user_id |-> uid, project_id |-> pid, description |-> desc,
     start_time |-> st, end_time |-> en,
     duration_minutes |-> duration_minutes(st, en), is_running |-> running]

(* gen_random_uuid(): an id no row of the table has *)
NewEntryId == Cardinality(time_entries) + 1


----------------------------------------------------------------------------
(* Row level security. Policies of one table for one command are           *)
(* permissive: a row passes when any of them passes.                       *)

(* As time_entries_select, had the policy been USING (true) *)
time_entries_select_any(uid, row) ==
    TRUE

(* As time_entries_select, without "Admins can view all time entries" *)
time_entries_select_own(uid, row) ==
    uid = row.user_id

(* "Users can view their own time entries", "Admins can view all time entries" *)
time_entries_select(uid, row) ==
    uid = row.user_id \/ has_role(uid, "admin")

(* "Users can manage their own time entries" FOR INSERT WITH CHECK *)
time_entries_insert(uid, row) ==
    uid = row.user_id

(* As time_entries_update, had admins been let to update every entry *)
time_entries_update_admin(uid, row) ==
    uid = row.user_id \/ has_role(uid, "admin")

(* "Users can update their own time entries" FOR UPDATE USING *)
time_entries_update(uid, row) ==
    uid = row.user_id

(* As projects_select, with "Users can view assigned projects" as the first *)
(* migration wrote it: WHERE project_id = id compares the assignment's own *)
(* id, so no assignment ever matches                                       *)
projects_select_first_migration(uid, p) ==
    has_role(uid, "admin")

(* As projects_select, had the policies shown active projects only *)
projects_select_active(uid, p) ==
    /\ p.is_active
    /\ \/ \E a \in project_assignments : a.project_id = p.id /\ a.user_id = uid
       \/ has_role(uid, "admin")

(* "Users can view assigned projects" as recreated by the second migration, *)
(* and "Admins can manage projects" FOR ALL                                 *)
projects_select(uid, p) ==
    \/ \E a \in project_assignments : a.project_id = p.id /\ a.user_id = uid
    \/ has_role(uid, "admin")

(* "Admins can manage projects" FOR ALL: the only policy for writes *)
projects_write(uid) ==
    has_role(uid, "admin")

(* "Admins can manage assignments" FOR ALL: the only policy for writes *)
project_assignments_write(uid) ==
    has_role(uid, "admin")

(* As user_roles_write, had every user been let to write role grants *)
user_roles_write_any(uid) ==
    TRUE

(* "Admins can manage roles" FOR ALL: the only policy for writes *)
user_roles_write(uid) ==
    has_role(uid, "admin")

(* REFERENCES public.projects(id): checked without row level security *)
ProjectExists(pid) ==
    \E p \in projects : p.id = pid

----------------------------------------------------------------------------
(* Queries *)

(* fetchTimeEntries: select ..., projects!inner(name) from time_entries.    *)
(* A row is returned when the caller may select it and the embedded        *)
(* project row is one the caller may select too (inner join).              *)
fetchTimeEntries(uid, entries) ==
    {r \in entries :
        /\ time_entries_select(uid, r)
        /\ \E p \in projects : p.id = r.project_id /\ projects_select(uid, p)}

(* filteredEntries: the project and date filters of the dashboard, applied *)
(* to the fetched entries. start_time.startsWith(filterDate) compares the  *)
(* day of the instant; a day of the model is sixty seconds long.           *)
DateOf(t) == t \div 60

filteredEntries(entries, filterProject, filterDate) ==
    {e \in entries :
        /\ filterProject = "all" \/ e.project_id = filterProject
        /\ filterDate = NULL \/ DateOf(e.start_time) = Val(filterDate)}

(* runningEntry = timeEntries.find(entry => entry.is_running), on the      *)
(* entries as fetched, latest start_time first: the entries find may       *)
(* return (one of the running entries of the latest start_time), none      *)
(* when it returns undefined. The Quick Timer card offers Stop Timer for   *)
(* the entry returned and Start Timer when there is none.                  *)
runningEntry(entries) ==
    {e \in entries :
        /\ e.is_running
        /\ \A f \in entries : f.is_running => f.start_time <= e.start_time}

(* fetchTimeEntriesSummary, its first query: select user_id, project_id,   *)
(* duration_minutes from time_entries where duration_minutes is not null   *)
timeEntriesData(uid) ==
    {e \in time_entries : time_entries_select(uid, e) /\ e.duration_minutes # NULL}

(* "Users can view their own profile": the only SELECT policy of profiles *)
profiles_select(uid, profileUserId) ==
    uid = profileUserId

(* The sum of duration_minutes over a set of entries that have one *)
RECURSIVE SumDuration(_)
SumDuration(S) ==
    IF S = {} THEN 0
    ELSE LET e == CHOOSE x \in S : TRUE
         IN  Val(e.duration_minutes) + SumDuration(S \ {e})

(* fetchTimeEntriesSummary: the entries with a duration, the profiles and  *)
(* the projects the caller may select; a (user, project) group is opened   *)
(* when the user's profile and the project are among them, and each entry  *)
(* of an opened group adds duration_minutes / 60 to its total_hours, kept  *)
(* here in sixtieths of an hour                                           *)
fetchTimeEntriesSummary(uid) ==
    LET profilesData == {u \in Users : profiles_select(uid, u)}
        projectsData == {p.id : p \in {q \in projects : projects_select(uid, q)}}
        group(u, p)  == {e \in timeEntriesData(uid) :
                            e.user_id = u /\ e.project_id = p}
    IN  {[user_id |-> u, project_id |-> p, total_hours |-> SumDuration(group(u, p))] :
            <<u, p>> \in {k \in profilesData \X projectsData :
                              group(k[1], k[2]) # {}}}

(* AdminDashboard fetchProjects: select * from projects, as the dashboard  *)
(* keeps it: the rows the caller may select, with their is_active          *)
fetchProjects(uid) ==
    {[id |-> p.id, is_active |-> p.is_active] :
        p \in {q \in projects : projects_select(uid, q)}}

(* What the last handler run left with its caller: the handler, the       *)
(* signed-in user, the handler's argument and the toast it raised.         *)
Shown(op, uid, arg, toast) ==
    [op |-> op, user |-> uid, arg |-> arg, toast |-> toast]

(* The dashboard's timeEntries state once the handler's own                *)
(* fetchTimeEntries() has set it                                           *)
timeEntries == fetchTimeEntries(last.user, time_entries)

----------------------------------------------------------------------------
(* State after the migrations and the sign-up of the users *)

UserRolesAtSignup ==
    [user_id : Users, role : {"user"}] \cup {[user_id |-> "adm", role |-> "admin"]}

Init ==
    /\ now = 0
    /\ user_roles = UserRolesAtSignup
    /\ projects = {}
    /\ project_assignments = {}
    /\ time_entries = {}
    /\ projectList = [u \in Users |-> {}]
    /\ last = Shown("init", "adm", NULL, "none")

(* Time passes *)
Tick ==
    /\ \E t \in Times : t > now /\ now' = t
    /\ last' = Shown("tick", "adm", NULL, "none")
    /\ UNCHANGED <<dbvars, projectList>>

----------------------------------------------------------------------------
(* UserDashboard *)

(* The mount effect, or a reload: fetchTimeEntries() *)
FetchTimeEntries(u) ==
    /\ last' = Shown("fetchTimeEntries", u, NULL, "none")
    /\ UNCHANGED <<now, dbvars, projectList>>

(* startTimer(projectId, description = ''), then fetchTimeEntries() *)
startTimer(u, projectId) ==
    LET row == TimeEntryRow(NewEntryId, u, projectId, "", now, NULL, TRUE)
        ok  == time_entries_insert(u, row) /\ ProjectExists(projectId)
    IN  /\ ok => Cardinality(time_entries) < MaxEntries
        /\ time_entries' = IF ok THEN time_entries \cup {row} ELSE time_entries
        /\ last' = Shown("startTimer", u, NULL,
                         IF ok THEN "Timer started" ELSE "Error starting timer")
        /\ UNCHANGED <<now, user_roles, projects, project_assignments, projectList>>

(* As stopTimer, had the update matched the caller's running entries       *)
(* rather than the entry of the id                                         *)
stopTimerAllRunning(u, entryId) ==
    LET hit == {r \in time_entries :
                   r.is_running /\ time_entries_update(u, r)
                                /\ time_entries_select(u, r)}
        upd(r) == TimeEntryRow(r.id, r.user_id, r.project_id, r.description,
                               r.start_time, Some(now), FALSE)
    IN  /\ time_entries' = (time_entries \ hit) \cup {upd(r) : r \in hit}
        /\ last' = Shown("stopTimer", u, Some(entryId), "Timer stopped")
        /\ UNCHANGED <<now, user_roles, projects, project_assignments, projectList>>

(* As stopTimer, had the update not set is_running *)
stopTimerKeepsRunning(u, entryId) ==
    LET hit == {r \in time_entries :
                   r.id = entryId /\ time_entries_update(u, r)
                                  /\ time_entries_select(u, r)}
        upd(r) == TimeEntryRow(r.id, r.user_id, r.project_id, r.description,
                               r.start_time, Some(now), r.is_running)
    IN  /\ time_entries' = (time_entries \ hit) \cup {upd(r) : r \in hit}
        /\ last' = Shown("stopTimer", u, Some(entryId), "Timer stopped")
        /\ UNCHANGED <<now, user_roles, projects, project_assignments, projectList>>

(* stopTimer(entryId): update ... set end_time, is_running where id =      *)
(* entryId, then fetchTimeEntries()                                        *)
stopTimer(u, entryId) ==
    LET hit == {r \in time_entries :
                   r.id = entryId /\ time_entries_update(u, r)
                                  /\ time_entries_select(u, r)}
        upd(r) == TimeEntryRow(r.id, r.user_id, r.project_id, r.description,
                               r.start_time, Some(now), FALSE)
    IN  /\ time_entries' = (time_entries \ hit) \cup {upd(r) : r \in hit}
        /\ last' = Shown("stopTimer", u, Some(entryId), "Timer stopped")
        /\ UNCHANGED <<now, user_roles, projects, project_assignments, projectList>>

(* createManualEntry(): the insert of the form's fields, then              *)
(* fetchTimeEntries(). An empty field is the empty string, which no uuid   *)
(* or timestamp column accepts.                                            *)
createManualEntry(u, project_id, description, start_time, end_time) ==
    LET wellFormed == project_id # NULL /\ start_time # NULL /\ end_time # NULL
        row == TimeEntryRow(NewEntryId, u, Val(project_id), description,
                            Val(start_time), end_time, FALSE)
        ok  == /\ wellFormed
               /\ time_entries_insert(u, row)
               /\ ProjectExists(Val(project_id))
    IN  /\ ok => Cardinality(time_entries) < MaxEntries
        /\ time_entries' = IF ok THEN time_entries \cup {row} ELSE time_entries
        /\ last' = Shown("createManualEntry", u, <<project_id, start_time, end_time>>,
                         IF ok THEN "Time entry created" ELSE "Error creating entry")
        /\ UNCHANGED <<now, user_roles, projects, project_assignments, projectList>>

----------------------------------------------------------------------------
(* AdminDashboard *)

NewProjectId ==
    CHOOSE p \in ProjectIds : ~ProjectExists(p)

(* The mount effect of AdminDashboard: fetchProjects() *)
FetchProjects(u) ==
    /\ projectList' = [projectList EXCEPT ![u] = fetchProjects(u)]
    /\ last' = Shown("fetchProjects", u, NULL, "none")
    /\ UNCHANGED <<now, dbvars>>

(* createProject(): insert into projects, then fetchProjects() *)
createProject(u) ==
    LET ok == projects_write(u)
    IN  /\ ok => \E p \in ProjectIds : ~ProjectExists(p)
        /\ projects' =
              IF ok
              THEN projects \cup
                      {[id |-> NewProjectId, created_by |-> u, is_active |-> TRUE]}
              ELSE projects
        /\ last' = Shown("createProject", u, NULL,
                         IF ok THEN "Project created successfully"
                               ELSE "Error creating project")
        /\ UNCHANGED <<now, user_roles, project_assignments, time_entries>>
        /\ projectList' =
              IF ok THEN [projectList EXCEPT ![u] = fetchProjects(u)']
                    ELSE projectList

(* As assignUserToProject, had the table lacked UNIQUE(project_id, user_id) *)
assignUserToProjectNoUnique(u, selectedProject, selectedUser) ==
    LET ok == /\ project_assignments_write(u)
              /\ ProjectExists(selectedProject)
    IN  /\ project_assignments' =
              IF ok
              THEN project_assignments \cup
                      {[project_id |-> selectedProject, user_id |-> selectedUser,
                        assigned_by |-> u]}
              ELSE project_assignments
        /\ last' = Shown("assignUserToProject", u, NULL,
                         IF ok THEN "User assigned to project successfully"
                               ELSE "Error assigning user")
        /\ UNCHANGED <<now, user_roles, projects, time_entries, projectList>>

(* assignUserToProject(): insert into project_assignments *)
assignUserToProject(u, selectedProject, selectedUser) ==
    LET ok == /\ project_assignments_write(u)
              /\ ProjectExists(selectedProject)
              /\ ~\E a \in project_assignments :
                     a.project_id = selectedProject /\ a.user_id = selectedUser
    IN  /\ project_assignments' =
              IF ok
              THEN project_assignments \cup
                      {[project_id |-> selectedProject, user_id |-> selectedUser,
                        assigned_by |-> u]}
              ELSE project_assignments
        /\ last' = Shown("assignUserToProject", u, NULL,
                         IF ok THEN "User assigned to project successfully"
                               ELSE "Error assigning user")
        /\ UNCHANGED <<now, user_roles, projects, time_entries, projectList>>

(* toggleProjectStatus(projectId, currentStatus), then fetchProjects() *)
toggleProjectStatus(u, projectId, currentStatus) ==
    LET hit == {p \in projects : p.id = projectId /\ projects_write(u)}
    IN  /\ projects' = (projects \ hit) \cup
               {[p EXCEPT !.is_active = ~currentStatus] : p \in hit}
        /\ last' = Shown("toggleProjectStatus", u, Some(projectId),
                         IF ~currentStatus THEN "Project activated"
                                           ELSE "Project deactivated")
        /\ UNCHANGED <<now, user_roles, project_assignments, time_entries>>
        /\ projectList' = [projectList EXCEPT ![u] = fetchProjects(u)']

(* delete from project_assignments where project_id = .. and user_id = ..  *)
(* as "Admins can manage assignments" lets an admin do; no dashboard       *)
(* handler issues it                                                       *)
deleteAssignment(u, projectId, userId) ==
    LET hit == {a \in project_assignments :
                   /\ a.project_id = projectId /\ a.user_id = userId
                   /\ project_assignments_write(u)}
    IN  /\ hit # {}
        /\ project_assignments' = project_assignments \ hit
        /\ last' = Shown("deleteAssignment", u, NULL, "none")
        /\ UNCHANGED <<now, user_roles, projects, time_entries, projectList>>

(* insert into user_roles (user_id, role), as "Admins can manage roles"    *)
(* lets an admin do; no dashboard handler issues it. UNIQUE(user_id, role) *)
grantRole(u, userId, role) ==
    LET row == [user_id |-> userId, role |-> role]
        ok  == user_roles_write(u) /\ row \notin user_roles
    IN  /\ user_roles' = IF ok THEN user_roles \cup {row} ELSE user_roles
        /\ last' = Shown("grantRole", u, NULL, "none")
        /\ UNCHANGED <<now, projects, project_assignments, time_entries, projectList>>

(* delete from user_roles where user_id = .. and role = .., likewise *)
revokeRole(u, userId, role) ==
    LET hit == {r \in user_roles :
                   r.user_id = userId /\ r.role = role /\ user_roles_write(u)}
    IN  /\ user_roles' = user_roles \ hit
        /\ last' = Shown("revokeRole", u, NULL, "none")
        /\ UNCHANGED <<now, projects, project_assignments, time_entries, projectList>>

----------------------------------------------------------------------------
(* The handlers with their inputs *)

Descriptions == {"work"}

DoFetchTimeEntries == \E u \in Users : FetchTimeEntries(u)

DoStartTimer == \E u \in Users, p \in ProjectIds : startTimer(u, p)

DoStopTimer == \E u \in Users, id \in EntryIds : stopTimer(u, id)

DoCreateProject == \E u \in Users : createProject(u)

DoAssignUser ==
    \E u \in Users, p \in ProjectIds, v \in Users : assignUserToProject(u, p, v)

DoDeleteAssignment ==
    \E u \in Users, p \in ProjectIds, v \in Users : deleteAssignment(u, p, v)

(* The store from the migrations on: projects are created and users are    *)
(* assigned and unassigned while timers are started and entries are listed *)
NextAccess ==
    \/ DoCreateProject
    \/ DoAssignUser
    \/ DoDeleteAssignment
    \/ DoStartTimer
    \/ DoFetchTimeEntries

SpecAccess == Init /\ [][NextAccess]_vars

(* A store in which the admin has created p1 and assigned u1 to it *)
InitAssigned ==
    /\ now = 0
    /\ user_roles = UserRolesAtSignup
    /\ projects = {[id |-> "p1", created_by |-> "adm", is_active |-> TRUE]}
    /\ project_assignments =
           {[project_id |-> "p1", user_id |-> "u1", assigned_by |-> "adm"]}
    /\ time_entries = {}
    /\ projectList = [u \in Users |-> {}]
    /\ last = Shown("init", "adm", NULL, "none")

(* Timers of all users on that store *)
Next ==
    \/ DoStartTimer
    \/ DoStopTimer
    \/ DoFetchTimeEntries

Spec == InitAssigned /\ [][Next]_vars

(* One user's entries against the clock *)
ClockStartTimer ==
    /\ Cardinality(time_entries) < MaxClockEntries
    /\ \E p \in ProjectIds : startTimer("u1", p)

ClockStopTimer == \E id \in EntryIds : stopTimer("u1", id)

ClockCreateManualEntry ==
    /\ Cardinality(time_entries) < MaxClockEntries
    /\ \E p \in Nullable(ProjectIds), d \in Descriptions,
          st \in Nullable(Times), en \in Nullable(Times) :
           createManualEntry("u1", p, d, st, en)

NextClock ==
    \/ Tick
    \/ ClockStartTimer
    \/ ClockStopTimer
    \/ ClockCreateManualEntry

SpecClock == InitAssigned /\ [][NextClock]_vars

(* The admin dashboard open for two users, one of them the admin of the    *)
(* start: admin grants come and go while projects are created, toggled     *)
(* from the fetched project list and assigned to the third user            *)
Staff == {"adm", "u1"}

StaffGrantRole == \E u \in Staff, v \in Staff : grantRole(u, v, "admin")

StaffRevokeRole == \E u \in Staff, v \in Staff : revokeRole(u, v, "admin")

StaffFetchProjects == \E u \in Staff : FetchProjects(u)

StaffCreateProject == \E u \in Staff : createProject(u)

StaffAssignUser ==
    \E u \in Staff, p \in ProjectIds : assignUserToProject(u, p, "u2")

(* The toggle button of a row of the fetched project list *)
StaffToggleProjectStatus ==
    \E u \in Staff : \E p \in projectList[u] :
        toggleProjectStatus(u, p.id, p.is_active)

(* The third user starts timers on the project of the start *)
MemberStartTimer ==
    /\ Cardinality(time_entries) < MaxClockEntries
    /\ startTimer("u2", "p1")

StaffFetchTimeEntries == \E u \in Staff : FetchTimeEntries(u)

NextAdmin ==
    \/ StaffGrantRole
    \/ StaffRevokeRole
    \/ StaffFetchProjects
    \/ StaffCreateProject
    \/ StaffAssignUser
    \/ StaffToggleProjectStatus
    \/ MemberStartTimer
    \/ StaffFetchTimeEntries

SpecAdmin == InitAssigned /\ [][NextAdmin]_vars

----------------------------------------------------------------------------
(* Properties of the time entry lifecycle *)

RunningOf(u, entries) ==
    {e \in entries : e.user_id = u /\ e.is_running}

(* C1: in every reachable state every user has at most one time entry with *)
(* is_running = true, whatever StartTimer and StopTimer calls were made.   *)
C1_AtMostOneRunningPerUser ==
    \A u \in Users : Cardinality(RunningOf(u, time_entries)) <= 1

(* C2: a StartTimer by a user who has a running entry fails with an error  *)
(* and changes nothing: no entry is created and the running entry stays    *)
(* as it is.                                                               *)
C2_StartWhileRunningFails ==
    [][\A u \in Users, p \in ProjectIds :
          (startTimer(u, p) /\ RunningOf(u, time_entries) # {})
              => /\ time_entries' = time_entries
                 /\ last'.toast = "Error starting timer"]_vars

(* C4: a StopTimer with an id that no entry has, or that an entry of       *)
(* another user has, changes no time entry and ends in an error for the    *)
(* caller, never in success, and in the same outcome in both cases.        *)
C4_StopOfMissingOrForeignEntryFails ==
    [][\A u \in Users, id \in EntryIds :
          (stopTimer(u, id) /\ ~\E e \in time_entries : e.id = id /\ e.user_id = u)
              => /\ time_entries' = time_entries
                 /\ last'.toast = "Error stopping timer"]_vars

(* The whole minutes nearest to d seconds, a half minute counting up *)
NearestMinute(d) ==
    CHOOSE m \in 0..d : 60 * m - 30 <= d /\ d < 60 * m + 30

OwnEntry(u, id) ==
    {e \in time_entries : e.id = id /\ e.user_id = u}

(* C3: a StopTimer by the owner on an entry that is already stopped        *)
(* leaves that entry's end_time and duration_minutes exactly as they were: *)
(* a second StopTimer never overwrites the end_time the first recorded.    *)
C3_StopOfStoppedEntryKeepsEndTime ==
    [][\A u \in Users, id \in EntryIds :
          (stopTimer(u, id) /\ \E e \in OwnEntry(u, id) : ~e.is_running)
              => \A e \in OwnEntry(u, id) : \E f \in time_entries' :
                    /\ f.id = id
                    /\ f.end_time = e.end_time
                    /\ f.duration_minutes = e.duration_minutes]_vars

(* C5: a CreateManualEntry whose end_time is not after its start_time is   *)
(* rejected with an error and creates no time entry.                       *)
C5_ManualEntryNeedsEndAfterStart ==
    [][\A u \in Users, p \in ProjectIds, d \in Descriptions,
          st \in Times, en \in Times :
          (createManualEntry(u, Some(p), d, Some(st), Some(en)) /\ en <= st)
              => /\ time_entries' = time_entries
                 /\ last'.toast = "Error creating entry"]_vars

(* C6: StartTimer at t1 and then StopTimer of that entry at t2 >= t1 leave *)
(* the entry with is_running = false, end_time = t2 and duration_minutes   *)
(* the minutes nearest to t2 - t1.                                         *)
C6_StopRecordsRoundedMinutes ==
    [][last'.op = "stopTimer" =>
          LET u  == last'.user
              id == Val(last'.arg)
          IN  (stopTimer(u, id) /\ \E e \in OwnEntry(u, id) : e.is_running)
                  => \A e \in OwnEntry(u, id) : \E f \in time_entries' :
                        /\ f.id = id
                        /\ ~f.is_running
                        /\ f.end_time = Some(now)
                        /\ now >= e.start_time
                        /\ f.duration_minutes =
                               Some(NearestMinute(now - e.start_time))]_vars

(* A timer started half a minute ago has just been stopped by its owner *)
C6_Witness ==
    /\ last.op = "stopTimer"
    /\ \E e \in OwnEntry(last.user, Val(last.arg)) :
          /\ e.description = ""
          /\ e.end_time = Some(now)
          /\ now - e.start_time = 30
          /\ e.duration_minutes = Some(1)

(* C7: a CreateManualEntry whose end_time is after its start_time, on an   *)
(* existing project, creates exactly one entry, not running, with          *)
(* duration_minutes computed from the two times; an end_time one second    *)
(* after start_time gives duration_minutes = 0.                            *)
C7_ManualEntryAccepted ==
    [][(last'.op = "createManualEntry" /\ NULL \notin {last'.arg[k] : k \in 1..3}) =>
          LET u  == last'.user
              p  == Val(last'.arg[1])
              st == Val(last'.arg[2])
              en == Val(last'.arg[3])
          IN  (/\ en > st /\ ProjectExists(p)
               /\ \E d \in Descriptions :
                     createManualEntry(u, Some(p), d, Some(st), Some(en)))
                  => /\ last'.toast = "Time entry created"
                     /\ time_entries \subseteq time_entries'
                     /\ Cardinality(time_entries' \ time_entries) = 1
                     /\ \A f \in time_entries' \ time_entries :
                           /\ f.user_id = u /\ f.project_id = p
                           /\ f.start_time = st /\ f.end_time = Some(en)
                           /\ ~f.is_running
                           /\ f.duration_minutes = Some(NearestMinute(en - st))
                           /\ en = st + 1 => f.duration_minutes = Some(0)]_vars

(* A manual entry of one second has just been created *)
C7_Witness ==
    /\ last.op = "createManualEntry"
    /\ last.toast = "Time entry created"
    /\ \E st \in Times :
          /\ last.arg[2] = Some(st) /\ last.arg[3] = Some(st + 1)
          /\ \E e \in time_entries :
                /\ e.user_id = last.user /\ e.description = "work"
                /\ e.start_time = st /\ e.end_time = Some(st + 1)
                /\ e.duration_minutes = Some(0) /\ ~e.is_running

(* C8: in every reachable state every time entry has duration_minutes set  *)
(* exactly when end_time is set, a running entry has neither, and the      *)
(* stored duration is the one derived from the entry's two times.          *)
C8_DurationDerived ==
    \A e \in time_entries :
        /\ e.duration_minutes # NULL <=> e.end_time # NULL
        /\ e.is_running => e.end_time = NULL /\ e.duration_minutes = NULL
        /\ e.end_time # NULL =>
              60 * Val(e.duration_minutes) - 30 <= Val(e.end_time) - e.start_time
              /\ Val(e.end_time) - e.start_time <= 60 * Val(e.duration_minutes) + 30

(* A timer has been started and stopped, and a running one exists no more *)
C8_Witness ==
    /\ last.op = "stopTimer"
    /\ \E e \in OwnEntry(last.user, Val(last.arg)) :
          /\ e.description = "" /\ ~e.is_running
          /\ e.end_time = Some(now) /\ e.duration_minutes # NULL

----------------------------------------------------------------------------
(* Properties of the entry listing *)

OwnEntries(u) ==
    {e \in time_entries : e.user_id = u}

Dates == {DateOf(t) : t \in Times}

(* C9: for an actor without the admin role the entry listing, under any    *)
(* project and date filter, raises no error and holds only entries of the  *)
(* actor that match the filter; it is empty when the actor has none.       *)
C9_NonAdminListsOnlyOwnEntries ==
    /\ last.op = "fetchTimeEntries" => last.toast = "none"
    /\ \A u \in Users : ~has_role(u, "admin") =>
          \A fp \in ProjectIds \cup {"all"}, fd \in Nullable(Dates) :
              filteredEntries(fetchTimeEntries(u, time_entries), fp, fd)
                  \subseteq filteredEntries(OwnEntries(u), fp, fd)

(* A user without the admin role has listed entries while another user's   *)
(* entry is on the same project: the list holds the own entries, and for a *)
(* project the user has no entry on it is empty                            *)
C9_Witness ==
    /\ last.op = "fetchTimeEntries"
    /\ ~has_role(last.user, "admin")
    /\ timeEntries # {}
    /\ \E e \in time_entries, f \in timeEntries :
          e.user_id # last.user /\ e.project_id = f.project_id
    /\ \E p \in ProjectIds :
          ProjectExists(p) /\ filteredEntries(timeEntries, p, NULL) = {}

(* C10: the entry listing returns a user's own entries whatever the user's *)
(* assignments are when it is read: an entry of the user on project P is   *)
(* still listed for the user once the user's assignment to P is deleted.   *)
C10_OwnEntriesListedAfterUnassignment ==
    [][\A a \in Users, p \in ProjectIds, u \in Users :
          deleteAssignment(a, p, u)
              => \A e \in OwnEntries(u) :
                    e.project_id = p => e \in fetchTimeEntries(u, time_entries)']_vars

(* C11: an actor holding the admin role who lists time entries with no     *)
(* filter receives the entries of every user, not only the own ones: the   *)
(* user dashboard's listing is the whole table, and the query of the admin *)
(* dashboard returns every entry of every user that has a duration.        *)
C11_AdminListsEntriesOfEveryUser ==
    \A a \in Users : has_role(a, "admin") =>
        /\ fetchTimeEntries(a, time_entries) = time_entries
        /\ filteredEntries(fetchTimeEntries(a, time_entries), "all", NULL)
              = time_entries
        /\ timeEntriesData(a) = {e \in time_entries : e.end_time # NULL}

(* An admin has listed the entries and got entries of two other users, one *)
(* of them stopped                                                        *)
C11_Witness ==
    /\ last.op = "fetchTimeEntries"
    /\ has_role(last.user, "admin")
    /\ \E e \in timeEntries, f \in timeEntriesData(last.user) :
          /\ e.user_id # last.user /\ f.user_id # last.user
          /\ e.user_id # f.user_id

(* C12: no operation creates, updates or deletes a time entry whose        *)
(* user_id differs from the acting user, also when the actor is an admin:  *)
(* every row a step adds to, removes from or replaces in time_entries is a *)
(* row of the user who ran the handler.                                    *)
C12_EntriesWrittenOnlyByOwner ==
    [][\A e \in (time_entries' \ time_entries) \cup (time_entries \ time_entries') :
          e.user_id = last'.user]_vars

(* An admin has run stopTimer on another user's running entry, which is    *)
(* still running                                                          *)
C12_Witness ==
    /\ last.op = "stopTimer"
    /\ has_role(last.user, "admin")
    /\ \E e \in time_entries :
          /\ e.id = Val(last.arg) /\ e.user_id # last.user
          /\ e.is_running /\ e.end_time = NULL
          /\ e \in fetchTimeEntries(last.user, time_entries)

----------------------------------------------------------------------------
(* Properties of projects, assignments and roles *)

Assigned(uid, pid) ==
    \E a \in project_assignments : a.project_id = pid /\ a.user_id = uid

(* C13: with both migrations applied, an actor without the admin role can  *)
(* read project P exactly when an assignment (P, actor) exists, so no more *)
(* once an admin has deleted that assignment; an admin can read every      *)
(* project without any assignment.                                         *)
C13_ProjectReadableIffAssigned ==
    /\ [](\A u \in Users, p \in projects :
             /\ ~has_role(u, "admin") =>
                   (projects_select(u, p) <=> Assigned(u, p.id))
             /\ ~has_role(u, "admin") =>
                   ((\E q \in fetchProjects(u) : q.id = p.id) <=> Assigned(u, p.id))
             /\ has_role(u, "admin") =>
                   /\ projects_select(u, p)
                   /\ \E q \in fetchProjects(u) : q.id = p.id)
    /\ [][\A a \in Users, u \in Users, pid \in ProjectIds :
             (deleteAssignment(a, pid, u) /\ ~has_role(u, "admin"))
                 => /\ \E q \in fetchProjects(u) : q.id = pid
                    /\ ~\E q \in fetchProjects(u)' : q.id = pid]_vars

(* An admin who is assigned to nothing has just deleted the assignment of  *)
(* a user to a project: the user reads one project still and the other no  *)
(* more, the admin reads both                                              *)
C13_Witness ==
    /\ last.op = "deleteAssignment"
    /\ has_role(last.user, "admin")
    /\ ~\E p \in ProjectIds : Assigned(last.user, p)
    /\ Cardinality(fetchProjects(last.user)) = 2
    /\ \E u \in Users :
          /\ ~has_role(u, "admin")
          /\ Cardinality(fetchProjects(u)) = 1
          /\ Cardinality(projects) = 2

(* C14: createProject, toggleProjectStatus and assignUserToProject run by  *)
(* an actor without the admin role are each rejected with an error and     *)
(* leave the projects, their is_active and the assignments unchanged; a    *)
(* denied call never reports success.                                      *)
C14_NonAdminWritesRejected ==
    [][(/\ last'.op \in {"createProject", "assignUserToProject",
                         "toggleProjectStatus"}
        /\ ~has_role(last'.user, "admin"))
          => /\ projects' = projects
             /\ project_assignments' = project_assignments
             /\ last'.toast \in {"Error creating project", "Error assigning user",
                                 "Error updating project"}]_vars

(* C15: for every (project_id, user_id) pair at most one assignment exists *)
(* in every reachable state, whoever made the calls and in whatever order; *)
(* an assignUserToProject for a pair that is already assigned fails with   *)
(* an error and leaves the assignments unchanged.                          *)
C15_AssignmentsUnique ==
    /\ [](\A a \in project_assignments, b \in project_assignments :
             (a.project_id = b.project_id /\ a.user_id = b.user_id) => a = b)
    /\ [][last'.op = "assignUserToProject" =>
             \A p \in ProjectIds, v \in Users :
                (assignUserToProject(last'.user, p, v) /\ Assigned(v, p))
                    => /\ project_assignments' = project_assignments
                       /\ last'.toast = "Error assigning user"]_vars

(* An admin has tried to assign a user to a project that another admin had *)
(* assigned the user to already, and got an error                         *)
C15_Witness ==
    /\ last.op = "assignUserToProject"
    /\ last.toast = "Error assigning user"
    /\ has_role(last.user, "admin")
    /\ \A p \in ProjectIds :
          /\ ProjectExists(p)
          /\ \E a \in project_assignments :
                a.project_id = p /\ a.user_id = "u2" /\ a.assigned_by # last.user

OnProject(pid) ==
    {e \in time_entries : e.project_id = pid}

C17_ToggleFlipsStoredValue ==
    [][(last'.op = "toggleProjectStatus" /\ has_role(last'.user, "admin")) =>
          \A p \in projects : p.id = Val(last'.arg) =>
              \E q \in projects' : q.id = p.id /\ q.is_active = ~p.is_active]_vars

AdminGrants(roles) ==
    {r.user_id : r \in {x \in roles : x.role = "admin"}}

(* C18: only an actor who holds the admin role adds or removes role        *)
(* grants: at the start every user holds the role "user" of the sign-up,   *)
(* every step that changes user_roles is run by a holder of the admin      *)
(* role, and no step of a user without it changes who holds it.            *)
C18_OnlyAdminsWriteRoleGrants ==
    /\ \A u \in Users : has_role(u, "user")
    /\ [][user_roles' # user_roles => has_role(last'.user, "admin")]_vars
    /\ [][~has_role(last'.user, "admin") =>
             AdminGrants(user_roles') = AdminGrants(user_roles)]_vars

(* A user without the admin role has tried to write a role grant while an  *)
(* admin exists, and holds no admin grant                                  *)
C18_Witness ==
    /\ last.op \in {"grantRole", "revokeRole"}
    /\ ~has_role(last.user, "admin")
    /\ AdminGrants(user_roles) # {}
    /\ last.user \notin AdminGrants(user_roles)

----------------------------------------------------------------------------
(* Properties of the report *)

Stopped(u, p) ==
    {e \in time_entries :
        e.user_id = u /\ e.project_id = p /\ e.duration_minutes # NULL}

RECURSIVE SumHours(_)
SumHours(R) ==
    IF R = {} THEN 0
    ELSE LET r == CHOOSE x \in R : TRUE
         IN  r.total_hours + SumHours(R \ {r})

(* C19: for an admin the report accounts for every stopped entry of every  *)
(* user: each (user, project) pair with such entries has one row whose     *)
(* total is the sum of their durations, running entries add nothing, and   *)
(* the rows add up to the sum over all entries that have a duration.       *)
C19_ReportAccountsForEveryStoppedEntry ==
    \A a \in Users : has_role(a, "admin") =>
        LET report == fetchTimeEntriesSummary(a)
        IN  /\ \A u \in Users, p \in ProjectIds :
                  Stopped(u, p) # {} =>
                      \E r \in report :
                          /\ r.user_id = u /\ r.project_id = p
                          /\ r.total_hours = SumDuration(Stopped(u, p))
            /\ SumHours(report) =
                  SumDuration({e \in time_entries : e.duration_minutes # NULL})

(* C20: role grants are read at each operation, never cached: an actor     *)
(* whose admin grant is gone is denied createProject, toggleProjectStatus  *)
(* and assignUserToProject (the store stays as it is) and is listed the    *)
(* own entries only, and an actor who holds the grant when the operation   *)
(* runs has it take effect, whatever grants the actor held before.         *)
C20_GrantsReadAtEachOperation ==
    [][LET u     == last'.user
           admin == u \in AdminGrants(user_roles)
       IN  /\ last'.op = "createProject" =>
                 IF admin
                 THEN /\ last'.toast = "Project created successfully"
                      /\ projects \subseteq projects'
                      /\ \E p \in projects' \ projects : p.created_by = u
                 ELSE /\ last'.toast = "Error creating project"
                      /\ projects' = projects
           /\ last'.op = "assignUserToProject" =>
                 IF admin
                 THEN \A p \in ProjectIds, v \in Users :
                         (/\ assignUserToProject(u, p, v)
                          /\ ProjectExists(p) /\ ~Assigned(v, p))
                             => /\ last'.toast = "User assigned to project successfully"
                                /\ [project_id |-> p, user_id |-> v, assigned_by |-> u]
                                       \in project_assignments'
                 ELSE /\ last'.toast = "Error assigning user"
                      /\ project_assignments' = project_assignments
           /\ last'.op = "toggleProjectStatus" =>
                 IF admin
                 THEN \E c \in projectList[u] :
                         /\ c.id = Val(last'.arg)
                         /\ \E q \in projects' :
                               q.id = c.id /\ q.is_active = ~c.is_active
                 ELSE projects' = projects
           /\ last'.op = "fetchTimeEntries" =>
                 IF admin
                 THEN timeEntries' = time_entries
                 ELSE timeEntries' \subseteq OwnEntries(u)]_vars

(* The admin of the start has lost the grant and has just been denied      *)
(* createProject, while a user who was granted the role has created a      *)
(* project and is listed another user's entry                              *)
C20_Witness ==
    /\ last.op = "createProject"
    /\ last.user = "adm"
    /\ last.toast = "Error creating project"
    /\ AdminGrants(user_roles) = {"u1"}
    /\ \E p \in projects : p.created_by = "u1"
    /\ fetchTimeEntries("adm", time_entries) = {}
    /\ \E e \in fetchTimeEntries("u1", time_entries) : e.user_id = "u2"

----------------------------------------------------------------------------
(* Properties of the running timer *)

C22_RunningEntryOfferedStop ==
    [][\A a \in Users, p \in ProjectIds, u \in Users :
          (deleteAssignment(a, p, u) /\ ~has_role(u, "admin"))
              => \A e \in RunningOf(u, time_entries) :
                    (/\ e.project_id = p
                     /\ e \in runningEntry(fetchTimeEntries(u, time_entries)))
                        => runningEntry(fetchTimeEntries(u, time_entries))' # {}]_vars

=============================================================================
